---- MODULE Spec2Model ----
(***************************************************************************)
(* The API client of the dashboard frontend (frontend/client/lib/api.ts):  *)
(* the session store kept in localStorage, the three authentication calls  *)
(* (login, logout, getCurrentUser) and the data-fetching functions with    *)
(* their response normalizers and fallbacks; and the login form (the Login  *)
(* component), which awaits the login call and shows how it ended.         *)
(*                                                                         *)
(* Every async function is cut at its await points.  A call runs from its  *)
(* start to its first await in one step, and from the settling of an       *)
(* awaited promise to the next await (or to its own settling) in one step, *)
(* as the browser's single-threaded event loop runs it.  Steps of          *)
(* different calls interleave freely.                                      *)
(***************************************************************************)
EXTENDS Integers, Sequences, FiniteSets, TLC

VARIABLES
    store,      \* localStorage["auth_token"]: <<>> when absent, <<s>> when it holds s
    calls,      \* the authentication calls, numbered in call-start order
    nstarted,   \* how many authentication calls were started
    writer,     \* the login call that wrote what the store holds (0: none of them)
    fcalls,     \* the data-fetching calls, numbered in call-start order
    nfetch,     \* how many data-fetching calls were started
    ops,        \* the direct calls of setAuthToken and removeAuthToken, in order
    form,       \* the state of the Login component: username, password, error, isLoading
    location,   \* the route the router shows
    submits,    \* the login promises the form's handleSubmit awaited, in submit order
    nav,        \* the Navigation component: which copy, mobileMenuOpen, isAuthenticated
    logouts     \* the logout promises handleLogout awaited, in click order

vars == <<store, writer, calls, nstarted, fcalls, nfetch, ops, form, location, submits,
          nav, logouts>>

\* Bounds of the model.
MaxCalls == 3
MaxFetch == 2
MaxClient == 1
MaxOps == 4
MaxSubmits == 3
MaxLogouts == 2

(***************************************************************************)
(* JavaScript values, tagged so that values of different types compare.    *)
(***************************************************************************)
Undef == [t |-> "undef"]
Null == [t |-> "null"]
Bad == [t |-> "bad"]            \* a body res.json() cannot decode
Str(s) == [t |-> "str", s |-> s]
Num(n) == [t |-> "num", n |-> n]
Bool(b) == [t |-> "bool", b |-> b]
Obj(o) == [t |-> "obj", o |-> o]
Arr(a) == [t |-> "arr", a |-> a]
Error(m) == [t |-> "error", message |-> m]
Pending == [t |-> "pending"]

\* v.f for a decoded JSON value v that is not null: undefined unless v is an
\* object that has the property.
Get(v, f) == IF v.t = "obj" /\ f \in DOMAIN v.o THEN v.o[f] ELSE Undef

\* JavaScript truthiness, as `!x` and `x || y` read it.
Truthy(v) ==
    CASE v.t = "undef" -> FALSE
      [] v.t = "null" -> FALSE
      [] v.t = "str" -> v.s # ""
      [] v.t = "num" -> v.n # 0
      [] v.t = "bool" -> v.b
      [] OTHER -> TRUE

\* String(v), as localStorage.setItem and new Error(...) convert their argument.
JsString(v) ==
    CASE v.t = "str" -> v.s
      [] v.t = "undef" -> "undefined"
      [] v.t = "null" -> "null"
      [] OTHER -> "[object]"

\* The messages of the errors the runtime itself raises.
NetworkError == "TypeError: Failed to fetch"
DecodeError == "SyntaxError: Unexpected token"
NullDeref == "TypeError: Cannot read properties of null"

(***************************************************************************)
(* What the network answers to one request.                                *)
(***************************************************************************)
NetFail == [net |-> "fail", status |-> 0, body |-> Undef]
Http(status, body) == [net |-> "http", status |-> status, body |-> body]
NoOutcome == [net |-> "none", status |-> 0, body |-> Undef]

\* Response.ok
Ok(status) == status >= 200 /\ status <= 299

Tokens == {"t1", "t2"}
InitialTokens == {"t0"}
Details == {"Incorrect username or password"}

LoginData(tk) == Obj([access_token |-> Str(tk), username |-> Str("admin")])
LoginBodies ==
    {Bad, Null, Obj([username |-> Str("admin")])} \cup {LoginData(tk) : tk \in Tokens}
ErrorBodies ==
    {Bad, Null, Obj([error |-> Str("unauthorized")]), Obj([detail |-> Str("")])}
        \cup {Obj([detail |-> Str(d)]) : d \in Details}
UserBodies == {Bad, Obj([username |-> Str("admin"), is_admin |-> Bool(TRUE)])}

LoginStatuses == {200, 401}
LogoutOutcomes == {NetFail, Http(200, Undef), Http(401, Undef)}
UserStatuses == {200, 401, 500}

(***************************************************************************)
(* The session store.                                                      *)
(***************************************************************************)
getAuthToken == store

\* setAuthToken as it would be if it wrote only into an empty store.
setAuthTokenIfEmpty(token) == IF store = <<>> THEN <<JsString(token)>> ELSE store

\* The new content of the store.
setAuthToken(token) == <<JsString(token)>>

removeAuthToken == <<>>

\* `!token` for what getAuthToken returned: null or a string.
Falsy(token) == token = <<>> \/ token[1] = ""

(***************************************************************************)
(* The authentication calls.                                               *)
(***************************************************************************)
CallIds == 1..MaxCalls

IdleCall ==
    [fn |-> "none", pc |-> "idle", token |-> <<>>, out |-> NoOutcome,
     requests |-> <<>>, result |-> Pending]

Request(method, path, authorization) ==
    [method |-> method, path |-> path, authorization |-> authorization]
\* The header as it would be without the scheme.
BearerBare(token) == <<token[1]>>

\* Authorization: `Bearer ${token}`
Bearer(token) == <<"Bearer " \o token[1]>>

\* login, to `await fetch(...)`.
loginStart(c) ==
    /\ c = nstarted + 1
    /\ c \in CallIds
    /\ nstarted' = c
    /\ calls' = [calls EXCEPT ![c] =
            [fn |-> "login", pc |-> "fetch", token |-> <<>>, out |-> NoOutcome,
             requests |-> <<Request("POST", "/auth/login/json", <<>>)>>,
             result |-> Pending]]
    /\ UNCHANGED <<store, writer, fcalls, nfetch, ops, form, location, submits, nav, logouts>>

\* The login request fails at the transport level: fetch rejects, and so does login.
loginFailed(c) ==
    /\ calls[c].fn = "login"
    /\ calls[c].pc = "fetch"
    /\ calls' = [calls EXCEPT ![c].out = NetFail, ![c].pc = "rejected",
                              ![c].result = Error(NetworkError)]
    /\ UNCHANGED <<store, writer, nstarted, fcalls, nfetch, ops, form, location, submits, nav, logouts>>

\* The login response arrives: to `await res.json()`, on either branch.
loginResponded(c, status) ==
    /\ calls[c].fn = "login"
    /\ calls[c].pc = "fetch"
    /\ calls' = [calls EXCEPT ![c].out = Http(status, Undef), ![c].pc = "json"]
    /\ UNCHANGED <<store, writer, nstarted, fcalls, nfetch, ops, form, location, submits, nav, logouts>>

\* `await res.json().catch(() => ({ detail: "Login failed" }))`
loginErrorBody(body) == IF body = Bad THEN Obj([detail |-> Str("Login failed")]) ELSE body

\* The message of the error that `throw new Error(error.detail || "Login failed")`
\* ends with: reading .detail of null is a TypeError of the runtime.
loginErrorMessage(error) ==
    IF error.t = "null" THEN NullDeref
    ELSE IF Truthy(Get(error, "detail")) THEN JsString(Get(error, "detail"))
    ELSE "Login failed"

\* login, from the settling of res.json() to the end.
loginDecoded(c, body) ==
    /\ calls[c].fn = "login"
    /\ calls[c].pc = "json"
    /\ body \in (IF Ok(calls[c].out.status) THEN LoginBodies ELSE ErrorBodies)
    /\ IF ~Ok(calls[c].out.status)
         THEN /\ calls' = [calls EXCEPT ![c].out.body = body, ![c].pc = "rejected",
                    ![c].result = Error(loginErrorMessage(loginErrorBody(body)))]
              /\ UNCHANGED <<store, writer>>
         ELSE IF body = Bad
           THEN /\ calls' = [calls EXCEPT ![c].out.body = body, ![c].pc = "rejected",
                                          ![c].result = Error(DecodeError)]
                /\ UNCHANGED <<store, writer>>
         ELSE IF body.t = "null"
           THEN /\ calls' = [calls EXCEPT ![c].out.body = body, ![c].pc = "rejected",
                                          ![c].result = Error(NullDeref)]
                /\ UNCHANGED <<store, writer>>
         ELSE /\ store' = setAuthToken(Get(body, "access_token"))
              /\ writer' = c
              /\ calls' = [calls EXCEPT ![c].out.body = body, ![c].pc = "resolved",
                                        ![c].result = body]
    /\ UNCHANGED <<nstarted, fcalls, nfetch, ops, form, location, submits, nav, logouts>>

\* logout, to `await fetch(...)`, or to the end when the store holds no token.
logoutStart(c) ==
    /\ c = nstarted + 1
    /\ c \in CallIds
    /\ nstarted' = c
    /\ LET token == getAuthToken
       IN  calls' = [calls EXCEPT ![c] =
             IF Falsy(token)
               THEN [fn |-> "logout", pc |-> "resolved", token |-> token,
                     out |-> NoOutcome, requests |-> <<>>, result |-> Undef]
               ELSE [fn |-> "logout", pc |-> "fetch", token |-> token,
                     out |-> NoOutcome,
                     requests |-> <<Request("POST", "/auth/logout", Bearer(token))>>,
                     result |-> Pending]]
    /\ UNCHANGED <<store, writer, fcalls, nfetch, ops, form, location, submits, nav, logouts>>

\* logout as it would end if removeAuthToken() followed the fetch inside the try
\* block instead of standing in `finally`.
logoutFetchedInTry(c, out) ==
    /\ calls[c].fn = "logout"
    /\ calls[c].pc = "fetch"
    /\ store' = IF out = NetFail THEN store ELSE removeAuthToken
    /\ writer' = IF out = NetFail THEN writer ELSE 0
    /\ calls' = [calls EXCEPT ![c].out = out, ![c].pc = "resolved", ![c].result = Undef]
    /\ UNCHANGED <<nstarted, fcalls, nfetch, ops, form, location, submits, nav, logouts>>

\* logout, from the settling of fetch, either way, through `finally`.
logoutFetched(c, out) ==
    /\ calls[c].fn = "logout"
    /\ calls[c].pc = "fetch"
    /\ store' = removeAuthToken
    /\ writer' = 0
    /\ calls' = [calls EXCEPT ![c].out = out, ![c].pc = "resolved", ![c].result = Undef]
    /\ UNCHANGED <<nstarted, fcalls, nfetch, ops, form, location, submits, nav, logouts>>

\* getCurrentUser, to `await fetch(...)`, or to the throw when there is no token.
getCurrentUserStart(c) ==
    /\ c = nstarted + 1
    /\ c \in CallIds
    /\ nstarted' = c
    /\ LET token == getAuthToken
       IN  calls' = [calls EXCEPT ![c] =
             IF Falsy(token)
               THEN [fn |-> "getCurrentUser", pc |-> "rejected", token |-> token,
                     out |-> NoOutcome, requests |-> <<>>,
                     result |-> Error("Not authenticated")]
               ELSE [fn |-> "getCurrentUser", pc |-> "fetch", token |-> token,
                     out |-> NoOutcome,
                     requests |-> <<Request("GET", "/auth/me", Bearer(token))>>,
                     result |-> Pending]]
    /\ UNCHANGED <<store, writer, fcalls, nfetch, ops, form, location, submits, nav, logouts>>

\* The request of getCurrentUser fails at the transport level.
getCurrentUserFailed(c) ==
    /\ calls[c].fn = "getCurrentUser"
    /\ calls[c].pc = "fetch"
    /\ calls' = [calls EXCEPT ![c].out = NetFail, ![c].pc = "rejected",
                              ![c].result = Error(NetworkError)]
    /\ UNCHANGED <<store, writer, nstarted, fcalls, nfetch, ops, form, location, submits, nav, logouts>>

\* The response of getCurrentUser as it would be handled if every non-success
\* status ended the session.
getCurrentUserRespondedAnyFailure(c, status) ==
    /\ calls[c].fn = "getCurrentUser"
    /\ calls[c].pc = "fetch"
    /\ IF ~Ok(status)
         THEN /\ store' = removeAuthToken
              /\ writer' = 0
              /\ calls' = [calls EXCEPT ![c].out = Http(status, Undef),
                              ![c].pc = "rejected",
                              ![c].result = Error(IF status = 401 THEN "Session expired"
                                                  ELSE "Failed to get user")]
         ELSE /\ calls' = [calls EXCEPT ![c].out = Http(status, Undef), ![c].pc = "json"]
              /\ UNCHANGED <<store, writer>>
    /\ UNCHANGED <<nstarted, fcalls, nfetch, ops, form, location, submits, nav, logouts>>

\* The response of getCurrentUser arrives: to `return res.json()`, or to a throw.
getCurrentUserResponded(c, status) ==
    /\ calls[c].fn = "getCurrentUser"
    /\ calls[c].pc = "fetch"
    /\ IF ~Ok(status)
         THEN IF status = 401
                THEN /\ store' = removeAuthToken
                     /\ writer' = 0
                     /\ calls' = [calls EXCEPT ![c].out = Http(status, Undef),
                                     ![c].pc = "rejected",
                                     ![c].result = Error("Session expired")]
                ELSE /\ calls' = [calls EXCEPT ![c].out = Http(status, Undef),
                                     ![c].pc = "rejected",
                                     ![c].result = Error("Failed to get user")]
                     /\ UNCHANGED <<store, writer>>
         ELSE /\ calls' = [calls EXCEPT ![c].out = Http(status, Undef), ![c].pc = "json"]
              /\ UNCHANGED <<store, writer>>
    /\ UNCHANGED <<nstarted, fcalls, nfetch, ops, form, location, submits, nav, logouts>>

\* The promise of res.json() that getCurrentUser returned settles.
getCurrentUserDecoded(c, body) ==
    /\ calls[c].fn = "getCurrentUser"
    /\ calls[c].pc = "json"
    /\ calls' = IF body = Bad
                  THEN [calls EXCEPT ![c].out.body = body, ![c].pc = "rejected",
                                     ![c].result = Error(DecodeError)]
                  ELSE [calls EXCEPT ![c].out.body = body, ![c].pc = "resolved",
                                     ![c].result = body]
    /\ UNCHANGED <<store, writer, nstarted, fcalls, nfetch, ops, form, location, submits, nav, logouts>>

(***************************************************************************)
(* The data-fetching functions.                                            *)
(***************************************************************************)
USE_MOCK == FALSE

\* What a try block ends with.
Return(v) == [thrown |-> FALSE, value |-> v]
Thrown == [thrown |-> TRUE, value |-> Undef]

\* The value a demo-data generator returns; the generators are fixtures.
Demo(name, arg) == [t |-> "demo", name |-> name, arg |-> arg]

PassThrough ==
    {"fetchMetrics", "fetchStores", "fetchTopStores", "fetchRecommendations",
     "fetchAnomalies", "detectAnomaly", "fetchRiskAnalysis", "fetchAlerts",
     "fetchCluster"}
Mapped == {"fetchKPIMetrics", "fetchForecast"}
FetchFns == Mapped \cup PassThrough \cup {"fetchInventories"}

\* The functions that begin with `if (USE_MOCK) return demo...()`.
Mockable == {"fetchKPIMetrics", "fetchMetrics", "fetchForecast", "fetchRecommendations"}

Periods == {3, 6}
\* The argument that reaches the result: fetchForecast's `periods`.
ArgsOf(fn) == IF fn = "fetchForecast" THEN Periods ELSE {0}

MethodOf(fn) ==
    IF fn \in {"detectAnomaly", "fetchRiskAnalysis", "fetchAlerts", "fetchCluster"}
      THEN "POST" ELSE "GET"

PathOf(fn) ==
    CASE fn \in {"fetchKPIMetrics", "fetchMetrics"} -> "/kpi"
      [] fn = "fetchStores" -> "/stores"
      [] fn = "fetchTopStores" -> "/stores/top"
      [] fn = "fetchForecast" -> "/forecast"
      [] fn = "fetchRecommendations" -> "/recommendations"
      [] fn \in {"fetchAnomalies", "detectAnomaly"} -> "/anomaly"
      [] fn = "fetchRiskAnalysis" -> "/risk"
      [] fn = "fetchAlerts" -> "/alerts"
      [] OTHER -> "/cluster"

\* What each function's catch block returns (fetchInventories: what it returns).
Fallback(fn, arg) ==
    CASE fn = "fetchKPIMetrics" -> Demo("demoKPIMetrics", 0)
      [] fn = "fetchMetrics" -> Demo("demoMetrics", 0)
      [] fn = "fetchStores" -> Obj([total_stores |-> Num(0), stores |-> Arr(<<>>)])
      [] fn = "fetchTopStores" -> Arr(<<>>)
      [] fn = "fetchInventories" -> Demo("demoInventories", 0)
      [] fn = "fetchForecast" -> Demo("demoForecast", arg)
      [] fn = "fetchRecommendations" -> Demo("demoRecommendations", 0)
      [] fn = "fetchAnomalies" -> Arr(<<>>)
      [] fn = "detectAnomaly" -> Obj([anomaly |-> Num(0), anomaly_score |-> Num(0)])
      [] fn = "fetchRiskAnalysis" ->
            Obj([risk_score |-> Num(0), risk_level |-> Str("LOW"), cluster |-> Num(0),
                 anomaly |-> Num(1), anomaly_score |-> Num(0)])
      [] fn = "fetchAlerts" -> Obj([alerts |-> Arr(<<>>), details |-> Null])
      [] OTHER -> Obj([cluster |-> Num(0)])

\* fetchKPIMetrics' mapping as it would be with max_sales and min_sales exchanged.
fetchKPIMetricsMapSwapped(json) ==
    IF json.t = "null" THEN Thrown
    ELSE Return(Obj([avgWeeklySales |-> Get(json, "avg_weekly_sales"),
                     maxSales |-> Get(json, "min_sales"),
                     minSales |-> Get(json, "max_sales"),
                     volatility |-> Get(json, "volatility"),
                     holidaySalesAvg |-> Get(json, "holiday_sales_avg")]))

\* fetchKPIMetrics, from the decoded body to the end of the try block.
fetchKPIMetricsMap(json) ==
    IF json.t = "null" THEN Thrown
    ELSE Return(Obj([avgWeeklySales |-> Get(json, "avg_weekly_sales"),
                     maxSales |-> Get(json, "max_sales"),
                     minSales |-> Get(json, "min_sales"),
                     volatility |-> Get(json, "volatility"),
                     holidaySalesAvg |-> Get(json, "holiday_sales_avg")]))

\* The callback of json.map in fetchForecast.
fetchForecastItem(item) ==
    Obj([date |-> Get(item, "timestamp"),
         forecast |-> Get(item, "forecast"),
         lowerInterval |-> Get(item, "lower_bound"),
         upperInterval |-> Get(item, "upper_bound"),
         historicalSales |-> Num(0),
         anomalyFlag |-> Bool(FALSE)])

\* fetchForecast, from the decoded body to the end of the try block: json.map is
\* a TypeError unless json is an array, and so is item.timestamp for a null item.
fetchForecastMap(json) ==
    IF json.t # "arr" THEN Thrown
    ELSE IF \E i \in 1..Len(json.a) : json.a[i].t = "null" THEN Thrown
    ELSE Return(Arr([i \in 1..Len(json.a) |-> fetchForecastItem(json.a[i])]))

\* Each function's try block, from the decoded body on.
Normalize(fn, json) ==
    CASE fn = "fetchKPIMetrics" -> fetchKPIMetricsMap(json)
      [] fn = "fetchForecast" -> fetchForecastMap(json)
      [] OTHER -> Return(json)

\* The status check as it would be if it were missing.
ThrowsApiErrorNever(status) == FALSE

\* `if (!res.ok) throw new Error("API error")`
ThrowsApiError(status) == ~Ok(status)

\* The catch block as it would be if it rethrew.
CaughtRethrown(fn, arg) == [pc |-> "rejected", result |-> Error("API error")]

\* The catch block: the call resolves with the function's fallback.
Caught(fn, arg) == [pc |-> "resolved", result |-> Fallback(fn, arg)]

\* The bodies the backend may send.
KpiFull ==
    [avg_weekly_sales |-> Num(16), max_sales |-> Num(69), min_sales |-> Num(1),
     volatility |-> Num(22), holiday_sales_avg |-> Num(17)]
KpiPayloads ==
    {Null,
     Obj(KpiFull),
     Obj([f \in DOMAIN KpiFull \cup {"store_id"} |->
            IF f = "store_id" THEN Num(1) ELSE KpiFull[f]]),
     Obj([f \in DOMAIN KpiFull \ {"holiday_sales_avg"} |-> KpiFull[f]])}

ForecastValues == {10, 20}
ForecastBare(F) == Obj([timestamp |-> Str("2012-11-04"), forecast |-> Num(F)])
ForecastBounded(F) ==
    Obj([timestamp |-> Str("2012-11-11"), forecast |-> Num(F),
         lower_bound |-> Num(F - 3), upper_bound |-> Num(F + 4)])
ForecastPayloads ==
    {Null, Obj([detail |-> Str("no data")]), Arr(<<>>), Arr(<<Null>>),
     Arr(<<ForecastBare(10)>>), Arr(<<ForecastBounded(10)>>),
     Arr(<<ForecastBare(20), ForecastBounded(10)>>)}

Recommendation(type) ==
    Obj([type |-> Str(type), priority |-> Str("MEDIUM"),
         message |-> Str("Review."), expected_impact |-> Str("Revenue")])
RecommendationsWrapper(recs) ==
    Obj([store_id |-> Num(1), risk_level |-> Str("MEDIUM"), recommendations |-> Arr(recs)])
RecommendationPayloads ==
    {Null, Obj([store_id |-> Num(1), risk_level |-> Str("MEDIUM")]),
     RecommendationsWrapper(<<>>),
     RecommendationsWrapper(<<Recommendation("PRICING")>>),
     RecommendationsWrapper(<<Recommendation("PRICING"), Recommendation("INVENTORY")>>)}

Payloads(fn) ==
    CASE fn = "fetchKPIMetrics" -> KpiPayloads
      [] fn = "fetchForecast" -> ForecastPayloads
      [] fn = "fetchRecommendations" -> RecommendationPayloads
      [] fn = "fetchMetrics" -> {Null, Obj(KpiFull)}
      [] fn = "fetchStores" ->
            {Null, Obj([total_stores |-> Num(1),
                        stores |-> Arr(<<Obj([store_id |-> Num(1)])>>)])}
      [] fn = "fetchTopStores" -> {Null, Arr(<<Obj([store_id |-> Num(20)])>>)}
      [] fn = "fetchAnomalies" -> {Null, Arr(<<Obj([anomaly |-> Num(-1)])>>)}
      [] fn = "detectAnomaly" -> {Null, Obj([anomaly |-> Num(-1), anomaly_score |-> Num(1)])}
      [] fn = "fetchRiskAnalysis" -> {Null, Obj([risk_score |-> Num(50)])}
      [] fn = "fetchAlerts" -> {Null, Obj([alerts |-> Arr(<<Str("a")>>)])}
      [] OTHER -> {Null, Obj([cluster |-> Num(3)])}

Statuses == {200, 500}

FetchIds == 1..MaxFetch

IdleFetch ==
    [fn |-> "none", arg |-> 0, pc |-> "idle", out |-> NoOutcome,
     requests |-> <<>>, result |-> Pending]

\* A data-fetching function, to `await fetch(...)`; fetchInventories, and every
\* mockable function under USE_MOCK, to its end.
fetchStart(c, fn, arg) ==
    /\ c = nfetch + 1
    /\ c \in FetchIds
    /\ nfetch' = c
    /\ fcalls' = [fcalls EXCEPT ![c] =
         IF fn = "fetchInventories" \/ (USE_MOCK /\ fn \in Mockable)
           THEN [fn |-> fn, arg |-> arg, pc |-> "resolved", out |-> NoOutcome,
                 requests |-> <<>>, result |-> Fallback(fn, arg)]
           ELSE [fn |-> fn, arg |-> arg, pc |-> "fetch", out |-> NoOutcome,
                 requests |-> <<Request(MethodOf(fn), PathOf(fn), <<>>)>>,
                 result |-> Pending]]
    /\ UNCHANGED <<store, writer, calls, nstarted, ops, form, location, submits, nav, logouts>>

\* The transport failure as it would be handled if the request were retried once.
fetchFailedRetried(c) ==
    /\ fcalls[c].pc = "fetch"
    /\ LET caught == Caught(fcalls[c].fn, fcalls[c].arg)
       IN  fcalls' =
             IF Len(fcalls[c].requests) < 2
               THEN [fcalls EXCEPT ![c].requests = Append(@, @[1])]
               ELSE [fcalls EXCEPT ![c].out = NetFail, ![c].pc = caught.pc,
                                   ![c].result = caught.result]
    /\ UNCHANGED <<store, writer, calls, nstarted, nfetch, ops, form, location, submits, nav, logouts>>

\* The request fails at the transport level: fetch rejects, the catch block runs.
fetchFailed(c) ==
    /\ fcalls[c].pc = "fetch"
    /\ LET caught == Caught(fcalls[c].fn, fcalls[c].arg)
       IN  fcalls' = [fcalls EXCEPT ![c].out = NetFail, ![c].pc = caught.pc,
                                    ![c].result = caught.result]
    /\ UNCHANGED <<store, writer, calls, nstarted, nfetch, ops, form, location, submits, nav, logouts>>

\* The response arrives: to the throw and the catch block on a non-success status,
\* to `await res.json()` otherwise.
fetchResponded(c, status) ==
    /\ fcalls[c].pc = "fetch"
    /\ LET caught == Caught(fcalls[c].fn, fcalls[c].arg)
       IN  fcalls' =
             IF ThrowsApiError(status)
               THEN [fcalls EXCEPT ![c].out = Http(status, Undef), ![c].pc = caught.pc,
                                   ![c].result = caught.result]
               ELSE [fcalls EXCEPT ![c].out = Http(status, Undef), ![c].pc = "json"]
    /\ UNCHANGED <<store, writer, calls, nstarted, nfetch, ops, form, location, submits, nav, logouts>>

\* res.json() settles with the decoded body, or rejects: the rest of the try block,
\* or the catch block.
fetchDecoded(c, body) ==
    /\ fcalls[c].pc = "json"
    /\ body \in Payloads(fcalls[c].fn) \cup {Bad}
    /\ LET fn == fcalls[c].fn
           caught == Caught(fn, fcalls[c].arg)
           try == IF body = Bad THEN Thrown ELSE Normalize(fn, body)
       IN  fcalls' =
             IF try.thrown
               THEN [fcalls EXCEPT ![c].out.body = body, ![c].pc = caught.pc,
                                   ![c].result = caught.result]
               ELSE [fcalls EXCEPT ![c].out.body = body, ![c].pc = "resolved",
                                   ![c].result = try.value]
    /\ UNCHANGED <<store, writer, calls, nstarted, nfetch, ops, form, location, submits, nav, logouts>>

\* checkHealth, to `await fetch(`${API_BASE_URL}/health`)`.
checkHealthStart(c) ==
    /\ c = nfetch + 1
    /\ c \in FetchIds
    /\ nfetch' = c
    /\ fcalls' = [fcalls EXCEPT ![c] =
         [fn |-> "checkHealth", arg |-> 0, pc |-> "health", out |-> NoOutcome,
          requests |-> <<Request("GET", "/health", <<>>)>>, result |-> Pending]]
    /\ UNCHANGED <<store, writer, calls, nstarted, ops, form, location, submits, nav, logouts>>

\* The health request fails at the transport level: `catch { return false; }`.
checkHealthFailed(c) ==
    /\ fcalls[c].pc = "health"
    /\ fcalls' = [fcalls EXCEPT ![c].out = NetFail, ![c].pc = "resolved",
                                 ![c].result = Bool(FALSE)]
    /\ UNCHANGED <<store, writer, calls, nstarted, nfetch, ops, form, location, submits, nav, logouts>>

\* The health response as it would be handled if any response counted as healthy.
checkHealthRespondedAnyStatus(c, status) ==
    /\ fcalls[c].pc = "health"
    /\ fcalls' = [fcalls EXCEPT ![c].out = Http(status, Undef), ![c].pc = "resolved",
                                 ![c].result = Bool(TRUE)]
    /\ UNCHANGED <<store, writer, calls, nstarted, nfetch, ops, form, location, submits, nav, logouts>>

\* The health response arrives: `return res.ok`; the body is never read.
checkHealthResponded(c, status) ==
    /\ fcalls[c].pc = "health"
    /\ fcalls' = [fcalls EXCEPT ![c].out = Http(status, Undef), ![c].pc = "resolved",
                                 ![c].result = Bool(Ok(status))]
    /\ UNCHANGED <<store, writer, calls, nstarted, nfetch, ops, form, location, submits, nav, logouts>>

AllPayloads == UNION {Payloads(fn) : fn \in FetchFns \ {"fetchInventories"}} \cup {Bad}

(***************************************************************************)
(* The session store called directly: setAuthToken and removeAuthToken are *)
(* exported, and take any string.                                          *)
(***************************************************************************)
StoreArgs == {"", "t1", "t2"}

SetOp(token) == [op |-> "setAuthToken", arg |-> token]
RemoveOp == [op |-> "removeAuthToken", arg |-> ""]

setAuthTokenCall(token) ==
    /\ Len(ops) < MaxOps
    /\ store' = setAuthToken(Str(token))
    /\ writer' = 0
    /\ ops' = Append(ops, SetOp(token))
    /\ UNCHANGED <<calls, nstarted, fcalls, nfetch, form, location, submits, nav, logouts>>

removeAuthTokenCall ==
    /\ Len(ops) < MaxOps
    /\ store' = removeAuthToken
    /\ writer' = 0
    /\ ops' = Append(ops, RemoveOp)
    /\ UNCHANGED <<calls, nstarted, fcalls, nfetch, form, location, submits, nav, logouts>>

(***************************************************************************)
(* The login form (the Login component).  A handler runs to its first      *)
(* await in one step; React renders the state it set before the next event *)
(* is handled.  `login` comes from useAuth(): a promise that resolves, or  *)
(* rejects with an Error or with some other value.                         *)
(***************************************************************************)
InitialForm == [username |-> "", password |-> "", error |-> "", isLoading |-> FALSE]

Usernames == {"", "admin"}
Passwords == {"", "secret"}
LoginMessages == {"Login failed", "Incorrect username or password"}
Resolved(v) == [settled |-> "resolved", value |-> v]
Rejected(v) == [settled |-> "rejected", value |-> v]
Awaited == [settled |-> "pending", value |-> Pending]
LoginOutcomes ==
    {Resolved(Undef)} \cup {Rejected(Error(m)) : m \in LoginMessages}
        \cup {Rejected(Str("timeout"))}

\* The disabled attribute as it would be if it were never set.
DisabledNever == FALSE

\* `disabled={isLoading}` on both inputs and on the submit button.
Disabled == form.isLoading

\* The catch block as it would be if it showed the generic message always.
handleSubmitCaughtGeneric(err) == "Login failed. Please try again."

\* `err instanceof Error ? err.message : "Login failed. Please try again."`
handleSubmitCaught(err) ==
    IF err.t = "error" THEN err.message ELSE "Login failed. Please try again."

\* onChange of the username input.
setUsername(v) ==
    /\ location = "/login"
    /\ ~Disabled
    /\ v # form.username
    /\ form' = [form EXCEPT !.username = v]
    /\ UNCHANGED <<store, writer, calls, nstarted, fcalls, nfetch, ops, location, submits, nav, logouts>>

\* onChange of the password input.
setPassword(v) ==
    /\ location = "/login"
    /\ ~Disabled
    /\ v # form.password
    /\ form' = [form EXCEPT !.password = v]
    /\ UNCHANGED <<store, writer, calls, nstarted, fcalls, nfetch, ops, location, submits, nav, logouts>>

\* The form is submitted (both fields are `required`): handleSubmit, to
\* `await login(username, password)`.
handleSubmitStart ==
    /\ location = "/login"
    /\ ~Disabled
    /\ form.username # "" /\ form.password # ""
    /\ Len(submits) < MaxSubmits
    /\ form' = [form EXCEPT !.error = "", !.isLoading = TRUE]
    /\ submits' = Append(submits, Awaited)
    /\ UNCHANGED <<store, writer, calls, nstarted, fcalls, nfetch, ops, location, nav, logouts>>

\* The login promise settles: navigate, or the catch block; then the finally block.
handleSubmitSettled(i, outcome) ==
    /\ i \in DOMAIN submits
    /\ submits[i] = Awaited
    /\ submits' = [submits EXCEPT ![i] = outcome]
    /\ IF outcome.settled = "resolved"
         THEN /\ location' = "/dashboard"
              /\ form' = [form EXCEPT !.isLoading = FALSE]
         ELSE /\ location' = location
              /\ form' = [form EXCEPT !.error = handleSubmitCaught(outcome.value),
                                      !.isLoading = FALSE]
    /\ UNCHANGED <<store, writer, calls, nstarted, fcalls, nfetch, ops, nav, logouts>>

(***************************************************************************)
(* The navigation bar (the Navigation component, in its two copies).       *)
(* `isAuthenticated` and `logout` come from useAuth(): a flag that the     *)
(* context changes when it will, and a promise that resolves or rejects.   *)
(***************************************************************************)
Copies == {"Navigation.tsx", "part_001"}
Routes == {"/", "/dashboard", "/login"}

InitialNav(copy, isAuthenticated) ==
    [copy |-> copy, mobileMenuOpen |-> FALSE, isAuthenticated |-> isAuthenticated]

\* What a menu shows: `{isAuthenticated && ...}` and `{isAuthenticated ? ... : ...}`.
MenuItems ==
    {"Home"} \cup (IF nav.isAuthenticated THEN {"Dashboard", "Logout"} ELSE {"Admin Login"})

\* The desktop menu is always rendered, the mobile menu under `{mobileMenuOpen && ...}`.
Rendered(menu) ==
    IF menu = "desktop" \/ nav.mobileMenuOpen THEN MenuItems ELSE {}

\* <Link to=...>
LinkTarget(item) ==
    CASE item = "Home" -> "/"
      [] item = "Dashboard" -> "/dashboard"
      [] OTHER -> "/login"

NavLogoutOutcomes == {Resolved(Undef), Rejected(Error("Logout failed"))}

\* The mobile menu button: setMobileMenuOpen(!mobileMenuOpen).
toggleMobileMenu ==
    /\ nav' = [nav EXCEPT !.mobileMenuOpen = ~@]
    /\ UNCHANGED <<store, writer, calls, nstarted, fcalls, nfetch, ops, form, location,
                   submits, logouts>>

\* The context renders the component with a new isAuthenticated.
useAuthChanged ==
    /\ nav' = [nav EXCEPT !.isAuthenticated = ~@]
    /\ UNCHANGED <<store, writer, calls, nstarted, fcalls, nfetch, ops, form, location,
                   submits, logouts>>

\* A link of a menu is followed; the mobile links of part_001 close the menu.
followLink(menu, item) ==
    /\ item \in Rendered(menu) \ {"Logout"}
    /\ location' = LinkTarget(item)
    /\ nav' = IF menu = "mobile" /\ nav.copy = "part_001"
                THEN [nav EXCEPT !.mobileMenuOpen = FALSE] ELSE nav
    /\ <<location', nav'>> # <<location, nav>>
    /\ UNCHANGED <<store, writer, calls, nstarted, fcalls, nfetch, ops, form, submits,
                   logouts>>

\* handleLogout as it would be if logout() were not awaited.
handleLogoutStartNotAwaited(menu) ==
    /\ "Logout" \in Rendered(menu)
    /\ Len(logouts) < MaxLogouts
    /\ logouts' = Append(logouts, [promise |-> Awaited, navigated |-> TRUE])
    /\ location' = "/login"
    /\ UNCHANGED <<store, writer, calls, nstarted, fcalls, nfetch, ops, form, submits, nav>>

\* The Logout button of a menu is clicked: handleLogout, to `await logout()`.
handleLogoutStart(menu) ==
    /\ "Logout" \in Rendered(menu)
    /\ Len(logouts) < MaxLogouts
    /\ logouts' = Append(logouts, [promise |-> Awaited, navigated |-> FALSE])
    /\ UNCHANGED <<store, writer, calls, nstarted, fcalls, nfetch, ops, form, location,
                   submits, nav>>

\* The logout promise settles: `navigate("/login")`, or handleLogout rejects in turn.
handleLogoutSettled(i, outcome) ==
    /\ i \in DOMAIN logouts
    /\ logouts[i].promise = Awaited
    /\ IF outcome.settled = "resolved"
         THEN /\ logouts' = [logouts EXCEPT ![i] = [promise |-> outcome, navigated |-> TRUE]]
              /\ location' = "/login"
         ELSE /\ logouts' = [logouts EXCEPT ![i].promise = outcome]
              /\ location' = location
    /\ UNCHANGED <<store, writer, calls, nstarted, fcalls, nfetch, ops, form, submits, nav>>


Init ==
    /\ store \in {<<>>} \cup {<<tk>> : tk \in InitialTokens}
    /\ writer = 0
    /\ calls = [c \in CallIds |-> IdleCall]
    /\ nstarted = 0
    /\ fcalls = [c \in FetchIds |-> IdleFetch]
    /\ nfetch = 0
    /\ ops = <<>>
    /\ form = InitialForm
    /\ location = "/login"
    /\ submits = <<>>
    /\ nav = InitialNav("Navigation.tsx", FALSE)
    /\ logouts = <<>>

Next ==
    \/ \E c \in CallIds : loginStart(c)
    \/ \E c \in CallIds : loginFailed(c)
    \/ \E c \in CallIds, status \in LoginStatuses : loginResponded(c, status)
    \/ \E c \in CallIds, body \in LoginBodies \cup ErrorBodies : loginDecoded(c, body)
    \/ \E c \in CallIds : logoutStart(c)
    \/ \E c \in CallIds, out \in LogoutOutcomes : logoutFetched(c, out)
    \/ \E c \in CallIds : getCurrentUserStart(c)
    \/ \E c \in CallIds : getCurrentUserFailed(c)
    \/ \E c \in CallIds, status \in UserStatuses : getCurrentUserResponded(c, status)
    \/ \E c \in CallIds, body \in UserBodies : getCurrentUserDecoded(c, body)

Spec == Init /\ [][Next]_vars

\* The data-fetching functions never read the session store.
FetchInit == Init /\ store = <<>>

FetchNext ==
    \/ \E c \in FetchIds, fn \in FetchFns : \E arg \in ArgsOf(fn) : fetchStart(c, fn, arg)
    \/ \E c \in FetchIds : fetchFailed(c)
    \/ \E c \in FetchIds, status \in Statuses : fetchResponded(c, status)
    \/ \E c \in FetchIds, body \in AllPayloads : fetchDecoded(c, body)
    \/ \E c \in FetchIds : checkHealthStart(c)
    \/ \E c \in FetchIds : checkHealthFailed(c)
    \/ \E c \in FetchIds, status \in Statuses : checkHealthResponded(c, status)

FetchSpec == FetchInit /\ [][FetchNext]_vars

\* One data-fetching call's next step once what it awaits has settled.
Settle(c) ==
    \/ fetchFailed(c)
    \/ \E status \in Statuses : fetchResponded(c, status)
    \/ \E body \in AllPayloads : fetchDecoded(c, body)
    \/ checkHealthFailed(c)
    \/ \E status \in Statuses : checkHealthResponded(c, status)

\* Every request issued eventually responds or fails, and every body read
\* eventually settles: each call's awaited promise settles, whatever the others do.
FetchLiveSpec == FetchSpec /\ \A c \in FetchIds : WF_vars(Settle(c))

\* The session store under MaxOps direct calls of its two writers.
StoreNext ==
    \/ \E token \in StoreArgs : setAuthTokenCall(token)
    \/ removeAuthTokenCall

StoreSpec == Init /\ [][StoreNext]_vars

\* The login form under MaxSubmits submits.
FormNext ==
    \/ \E v \in Usernames : setUsername(v)
    \/ \E v \in Passwords : setPassword(v)
    \/ handleSubmitStart
    \/ \E i \in 1..MaxSubmits, outcome \in LoginOutcomes : handleSubmitSettled(i, outcome)

FormSpec == FetchInit /\ [][FormNext]_vars

\* The navigation bar, either copy, on any route, under MaxLogouts clicks of Logout.
NavInit ==
    /\ store = <<>>
    /\ writer = 0
    /\ calls = [c \in CallIds |-> IdleCall]
    /\ nstarted = 0
    /\ fcalls = [c \in FetchIds |-> IdleFetch]
    /\ nfetch = 0
    /\ ops = <<>>
    /\ form = InitialForm
    /\ submits = <<>>
    /\ location \in Routes
    /\ nav \in {InitialNav(copy, b) : copy \in Copies, b \in BOOLEAN}
    /\ logouts = <<>>

NavNext ==
    \/ toggleMobileMenu
    \/ useAuthChanged
    \/ \E menu \in {"desktop", "mobile"}, item \in {"Home", "Dashboard", "Admin Login"} :
          followLink(menu, item)
    \/ \E menu \in {"desktop", "mobile"} : handleLogoutStart(menu)
    \/ \E i \in 1..MaxLogouts, outcome \in NavLogoutOutcomes : handleLogoutSettled(i, outcome)

NavSpec == NavInit /\ [][NavNext]_vars

\* The whole client: MaxClient calls of any of its functions, from either initial
\* store.
Room == nstarted + nfetch < MaxClient

ClientNext ==
    \/ Room /\ \E c \in CallIds : loginStart(c)
    \/ Room /\ \E c \in CallIds : logoutStart(c)
    \/ Room /\ \E c \in CallIds : getCurrentUserStart(c)
    \/ Room /\ \E c \in FetchIds, fn \in FetchFns : \E arg \in ArgsOf(fn) :
                 fetchStart(c, fn, arg)
    \/ Room /\ \E c \in FetchIds : checkHealthStart(c)
    \/ \E c \in CallIds : loginFailed(c)
    \/ \E c \in CallIds, status \in LoginStatuses : loginResponded(c, status)
    \/ \E c \in CallIds, body \in LoginBodies \cup ErrorBodies : loginDecoded(c, body)
    \/ \E c \in CallIds, out \in LogoutOutcomes : logoutFetched(c, out)
    \/ \E c \in CallIds : getCurrentUserFailed(c)
    \/ \E c \in CallIds, status \in UserStatuses : getCurrentUserResponded(c, status)
    \/ \E c \in CallIds, body \in UserBodies : getCurrentUserDecoded(c, body)
    \/ \E c \in FetchIds : fetchFailed(c)
    \/ \E c \in FetchIds, status \in Statuses : fetchResponded(c, status)
    \/ \E c \in FetchIds, body \in AllPayloads : fetchDecoded(c, body)
    \/ \E c \in FetchIds : checkHealthFailed(c)
    \/ \E c \in FetchIds, status \in Statuses : checkHealthResponded(c, status)

ClientSpec == Init /\ [][ClientNext]_vars

(***************************************************************************)
(* The session: login, logout, getCurrentUser (checked under Spec).        *)
(***************************************************************************)
Settled(call) == call.pc \in {"resolved", "rejected"}

\* The response data carries an access token.
CarriesToken(body) ==
    body.t = "obj" /\ "access_token" \in DOMAIN body.o /\ body.o.access_token.t = "str"

\* C1: whatever the store held before, when login receives a success response
\* carrying access token T, the step that settles the login promise resolves it
\* with the response data and leaves exactly T in the store.
C1_LoginStoresIssuedToken ==
    [][\A c \in CallIds :
         (/\ calls[c].fn = "login"
          /\ calls[c].pc = "json"
          /\ Ok(calls[c].out.status)
          /\ Settled(calls'[c])
          /\ CarriesToken(calls'[c].out.body))
         => /\ calls'[c].pc = "resolved"
            /\ calls'[c].result = calls'[c].out.body
            /\ store' = <<calls'[c].out.body.o.access_token.s>>]_vars

\* A login has resolved with a token that replaced the token of an earlier login.
C1_Witness ==
    \E c, d \in CallIds :
        /\ d < c
        /\ calls[c].fn = "login" /\ calls[c].pc = "resolved"
        /\ calls[d].fn = "login" /\ calls[d].pc = "resolved"
        /\ CarriesToken(calls[c].result) /\ CarriesToken(calls[d].result)
        /\ calls[c].result # calls[d].result
        /\ store = <<calls[c].result.o.access_token.s>>

\* The message the claim gives for an error body.
DetailOrLoginFailed(body) ==
    IF body.t = "obj" /\ Truthy(Get(body, "detail"))
      THEN Get(body, "detail").s ELSE "Login failed"

\* C2: when login receives a non-success response, the step that settles the
\* login promise leaves the store as it was and rejects with an error whose message
\* is the backend's detail text when the body carries one, and "Login failed" when
\* the body has no detail or cannot be decoded.
C2_LoginFailureMessage ==
    [][\A c \in CallIds :
         (/\ calls[c].fn = "login"
          /\ calls[c].pc = "json"
          /\ ~Ok(calls[c].out.status)
          /\ Settled(calls'[c]))
         => /\ store' = store
            /\ calls'[c].pc = "rejected"
            /\ calls'[c].result = Error(DetailOrLoginFailed(calls'[c].out.body))]_vars

\* C5: a token stored by a successful login is never removed by the completion
\* of a logout, or by the 401 handling of a getCurrentUser, that was started before
\* that login (calls are numbered in call-start order).
C5_LoginTokenOutlivesEarlierCalls ==
    [][\A c \in CallIds :
         (/\ calls[c].fn \in {"logout", "getCurrentUser"}
          /\ calls[c].pc = "fetch"
          /\ Settled(calls'[c])
          /\ writer # 0
          /\ CarriesToken(calls[writer].result)
          /\ store = <<calls[writer].result.o.access_token.s>>
          /\ store' = <<>>)
         => writer < c]_vars

\* Call c takes the step: the steps of a call are the only ones that change its record.
StepOf(c) == calls'[c] # calls[c]

C18_OnlyUnauthorizedEndsSession ==
    [][\A c \in CallIds :
         (StepOf(c) /\ calls'[c].fn = "getCurrentUser")
         => LET after == calls'[c]
                unauthorized == after.out.net = "http" /\ after.out.status = 401
            IN  /\ unauthorized =>
                      /\ store' = <<>>
                      /\ after.pc = "rejected"
                      /\ after.result = Error("Session expired")
                /\ ~unauthorized => store' = store
                /\ (after.out.net = "http" /\ ~Ok(after.out.status) /\ ~unauthorized) =>
                      /\ after.pc = "rejected"
                      /\ after.result = Error("Failed to get user")
                /\ (calls[c].pc = "idle" /\ Falsy(store)) =>
                      /\ after.pc = "rejected"
                      /\ after.result = Error("Not authenticated")]_vars

\* A getCurrentUser was answered with a non-success status other than 401 and
\* the store still holds the token it sent.
C18_Witness ==
    \E c \in CallIds :
        /\ calls[c].fn = "getCurrentUser"
        /\ calls[c].pc = "rejected"
        /\ calls[c].out = Http(500, Undef)
        /\ store # <<>>
        /\ store = calls[c].token

\* C19: in every reachable state the store is empty or holds a token issued as
\* access_token in a success response to a login call (the token of the earlier
\* session the store may start with included); no operation writes anything
\* else, not even when a success response carries no access_token.
C19_StoreHoldsIssuedToken ==
    \/ store = <<>>
    \/ store[1] \in InitialTokens
    \/ \E c \in CallIds :
          /\ calls[c].fn = "login"
          /\ Ok(calls[c].out.status)
          /\ CarriesToken(calls[c].out.body)
          /\ store = <<calls[c].out.body.o.access_token.s>>

(***************************************************************************)
(* The data-fetching functions (checked under FetchSpec).                  *)
(***************************************************************************)
ReadEndpoints ==
    {"fetchKPIMetrics", "fetchMetrics", "fetchStores", "fetchTopStores",
     "fetchForecast", "fetchRecommendations"}

\* The fallback the claim designates for each read endpoint.
DesignatedFallback(fn, arg) ==
    CASE fn = "fetchKPIMetrics" -> Demo("demoKPIMetrics", 0)
      [] fn = "fetchMetrics" -> Demo("demoMetrics", 0)
      [] fn = "fetchStores" -> Obj([total_stores |-> Num(0), stores |-> Arr(<<>>)])
      [] fn = "fetchTopStores" -> Arr(<<>>)
      [] fn = "fetchForecast" -> Demo("demoForecast", arg)
      [] OTHER -> Demo("demoRecommendations", 0)

\* C3: a read endpoint function whose request fails at the transport level
\* resolves with the endpoint's designated fallback value; its promise never rejects.
C3_TransportFailureFallsBack ==
    \A c \in FetchIds :
        fcalls[c].fn \in ReadEndpoints
        => /\ fcalls[c].pc # "rejected"
           /\ fcalls[c].out = NetFail
              => /\ fcalls[c].pc = "resolved"
                 /\ fcalls[c].result = DesignatedFallback(fcalls[c].fn, fcalls[c].arg)

\* fetchForecast(_, 3) and fetchStores have both failed at the transport level.
C3_Witness ==
    \E c, d \in FetchIds :
        /\ fcalls[c].fn = "fetchForecast" /\ fcalls[c].arg = 3
        /\ fcalls[c].out = NetFail /\ fcalls[c].pc = "resolved"
        /\ fcalls[d].fn = "fetchStores"
        /\ fcalls[d].out = NetFail /\ fcalls[d].pc = "resolved"

\* C4: for every data-fetching function, a call that met a non-success status
\* and a call (of the same function, with the same arguments) that met a transport
\* failure both resolve, and with the same value.
C4_StatusAndTransportAlike ==
    \A c, d \in FetchIds :
        (/\ fcalls[c].fn = fcalls[d].fn
         /\ fcalls[c].arg = fcalls[d].arg
         /\ fcalls[c].out = NetFail
         /\ fcalls[d].out.net = "http"
         /\ ~(fcalls[d].out.status \in 200..299)
         /\ fcalls[d].pc # "json")
        => /\ fcalls[c].pc = "resolved"
           /\ fcalls[d].pc = "resolved"
           /\ fcalls[c].result = fcalls[d].result

\* Two detectAnomaly calls have settled, one after a transport failure, one
\* after a status of 500.
C4_Witness ==
    \E c, d \in FetchIds :
        /\ fcalls[c].fn = "detectAnomaly" /\ fcalls[d].fn = "detectAnomaly"
        /\ fcalls[c].out = NetFail /\ fcalls[c].pc = "resolved"
        /\ fcalls[d].out.net = "http" /\ fcalls[d].out.status = 500
        /\ fcalls[d].pc = "resolved"

\* The call received a success response whose body was decoded.
Decoded(call) ==
    /\ call.out.net = "http"
    /\ call.out.status \in 200..299
    /\ call.pc # "json"
    /\ call.out.body # Bad

\* C6: for every forecast item with forecast value F that the backend returns
\* without lower_bound and upper_bound, the element fetchForecast produces has
\* lowerInterval = 0.9 x F and upperInterval = 1.1 x F; bounds the backend supplies
\* are passed through unchanged.
C6_ForecastBoundsDefaulted ==
    \A c \in FetchIds :
        (/\ fcalls[c].fn = "fetchForecast"
         /\ Decoded(fcalls[c])
         /\ fcalls[c].out.body.t = "arr"
         /\ \A i \in 1..Len(fcalls[c].out.body.a) : fcalls[c].out.body.a[i].t = "obj")
        => LET items == fcalls[c].out.body.a
               result == fcalls[c].result
           IN  /\ fcalls[c].pc = "resolved"
               /\ result.t = "arr"
               /\ Len(result.a) = Len(items)
               /\ \A i \in 1..Len(items) :
                    LET F == Get(items[i], "forecast").n
                    IN  IF "lower_bound" \in DOMAIN items[i].o
                          THEN /\ Get(result.a[i], "lowerInterval") = Get(items[i], "lower_bound")
                               /\ Get(result.a[i], "upperInterval") = Get(items[i], "upper_bound")
                          ELSE /\ Get(result.a[i], "lowerInterval") = Num((9 * F) \div 10)
                               /\ Get(result.a[i], "upperInterval") = Num((11 * F) \div 10)

\* C7: for every successful payload whose `recommendations` wrapper holds N
\* entries, fetchRecommendations returns a flat array of exactly N elements, the
\* element at position i carrying an id of its own, derived from i.
C7_RecommendationsFlattened ==
    \A c \in FetchIds :
        (/\ fcalls[c].fn = "fetchRecommendations"
         /\ Decoded(fcalls[c])
         /\ fcalls[c].out.body.t = "obj"
         /\ "recommendations" \in DOMAIN fcalls[c].out.body.o)
        => LET recs == fcalls[c].out.body.o.recommendations.a
               result == fcalls[c].result
           IN  /\ fcalls[c].pc = "resolved"
               /\ result.t = "arr"
               /\ Len(result.a) = Len(recs)
               /\ \A i \in 1..Len(recs) : Get(result.a[i], "id").t = "str"
               /\ \A i, j \in 1..Len(recs) :
                    i # j => Get(result.a[i], "id") # Get(result.a[j], "id")

Normalizers ==
    {"fetchKPIMetrics", "fetchForecast", "fetchRecommendations", "fetchStores",
     "fetchTopStores"}

\* A record none of whose fields is undefined, or an array of such records.
NoFieldUndefined(v) == v.t = "obj" /\ \A f \in DOMAIN v.o : v.o[f].t # "undef"
Defaulted(v) ==
    \/ NoFieldUndefined(v)
    \/ v.t = "arr" /\ \A i \in 1..Len(v.a) : NoFieldUndefined(v.a[i])

\* C8: for every normalizer function and every decoded payload, malformed or
\* lacking fields, the promise resolves, with the endpoint's fallback value or with
\* a record in which every absent field has been replaced by a default.
C8_MalformedPayloadDefaulted ==
    \A c \in FetchIds :
        (fcalls[c].fn \in Normalizers /\ Decoded(fcalls[c]))
        => /\ fcalls[c].pc = "resolved"
           /\ \/ fcalls[c].result = Fallback(fcalls[c].fn, fcalls[c].arg)
              \/ Defaulted(fcalls[c].result)

KpiNumericFields == {"avgWeeklySales", "maxSales", "minSales", "volatility", "holidaySalesAvg"}
ForecastNumericFields == {"forecast", "lowerInterval", "upperInterval", "historicalSales"}

\* C9: in every value fetchKPIMetrics and fetchForecast build from a backend
\* payload, every numeric field is a number, never undefined.
C9_NumericFieldsDefined ==
    \A c \in FetchIds :
        (fcalls[c].pc = "resolved" /\ fcalls[c].result.t # "demo")
        => /\ fcalls[c].fn = "fetchKPIMetrics"
              => \A f \in KpiNumericFields : Get(fcalls[c].result, f).t = "num"
           /\ fcalls[c].fn = "fetchForecast"
              => /\ fcalls[c].result.t = "arr"
                 /\ \A i \in 1..Len(fcalls[c].result.a) :
                      \A f \in ForecastNumericFields :
                          Get(fcalls[c].result.a[i], f).t = "num"

\* The fields of the KPI view model and the payload fields they come from.
KpiRemap ==
    {<<"avgWeeklySales", "avg_weekly_sales">>, <<"maxSales", "max_sales">>,
     <<"minSales", "min_sales">>, <<"volatility", "volatility">>,
     <<"holidaySalesAvg", "holiday_sales_avg">>}

\* C10: for every successful KPI payload (a JSON object), fetchKPIMetrics
\* resolves with a record of exactly the five fields avgWeeklySales, maxSales,
\* minSales, volatility, holidaySalesAvg, each equal to the payload's
\* avg_weekly_sales, max_sales, min_sales, volatility, holiday_sales_avg; no other
\* field is copied through.
C10_KpiRemapped ==
    \A c \in FetchIds :
        (/\ fcalls[c].fn = "fetchKPIMetrics"
         /\ Decoded(fcalls[c])
         /\ fcalls[c].out.body.t = "obj")
        => /\ fcalls[c].pc = "resolved"
           /\ fcalls[c].result.t = "obj"
           /\ DOMAIN fcalls[c].result.o = {p[1] : p \in KpiRemap}
           /\ \A p \in KpiRemap :
                fcalls[c].result.o[p[1]] = Get(fcalls[c].out.body, p[2])

\* fetchKPIMetrics has resolved for a payload that carries a sixth field.
C10_Witness ==
    \E c \in FetchIds :
        /\ fcalls[c].fn = "fetchKPIMetrics"
        /\ Decoded(fcalls[c])
        /\ fcalls[c].out.body.t = "obj"
        /\ "store_id" \in DOMAIN fcalls[c].out.body.o
        /\ fcalls[c].pc = "resolved"

AnalysisEndpoints ==
    {"fetchAnomalies", "detectAnomaly", "fetchRiskAnalysis", "fetchAlerts", "fetchCluster"}

\* The substitute the claim gives for each analysis endpoint.
Substitute(fn) ==
    CASE fn = "fetchAnomalies" -> Arr(<<>>)
      [] fn = "detectAnomaly" -> Obj([anomaly |-> Num(0), anomaly_score |-> Num(0)])
      [] fn = "fetchRiskAnalysis" ->
            Obj([risk_score |-> Num(0), risk_level |-> Str("LOW"), cluster |-> Num(0),
                 anomaly |-> Num(1), anomaly_score |-> Num(0)])
      [] fn = "fetchAlerts" -> Obj([alerts |-> Arr(<<>>), details |-> Null])
      [] OTHER -> Obj([cluster |-> Num(0)])

SuccessStatus(call) == call.out.net = "http" /\ Ok(call.out.status)

\* The request failed at the transport level, was answered with a non-success
\* status, or was answered with a body that cannot be decoded.
Failed(call) ==
    \/ call.out = NetFail
    \/ call.out.net = "http" /\ ~Ok(call.out.status)
    \/ SuccessStatus(call) /\ call.out.body = Bad

\* C14: an analysis endpoint function (fetchAnomalies, detectAnomaly,
\* fetchRiskAnalysis, fetchAlerts, fetchCluster) whose request failed at the
\* transport level, got a non-success status or got an undecodable body has
\* resolved with its fixed substitute, and none of them ever rejects; checkHealth
\* resolves with true exactly when the health response has a success status,
\* and with false on every failure.
C14_AnalysisSubstitutes ==
    \A c \in FetchIds :
        /\ fcalls[c].fn \in AnalysisEndpoints =>
              /\ fcalls[c].pc # "rejected"
              /\ Failed(fcalls[c]) =>
                    /\ fcalls[c].pc = "resolved"
                    /\ fcalls[c].result = Substitute(fcalls[c].fn)
        /\ (fcalls[c].fn = "checkHealth" /\ fcalls[c].pc # "health") =>
              /\ fcalls[c].pc = "resolved"
              /\ fcalls[c].result = Bool(SuccessStatus(fcalls[c]))

\* fetchRiskAnalysis has resolved after an undecodable body and checkHealth after
\* a non-success status.
C14_Witness ==
    \E c, d \in FetchIds :
        /\ fcalls[c].fn = "fetchRiskAnalysis"
        /\ fcalls[c].pc = "resolved"
        /\ SuccessStatus(fcalls[c]) /\ fcalls[c].out.body = Bad
        /\ fcalls[d].fn = "checkHealth"
        /\ fcalls[d].pc = "resolved"
        /\ fcalls[d].out.net = "http" /\ ~Ok(fcalls[d].out.status)

(***************************************************************************)
(* The client as a whole (checked under ClientSpec).                       *)
(***************************************************************************)
\* C11: every invocation of an API-client function (login, logout,
\* getCurrentUser, every fetch*, detectAnomaly, checkHealth) has issued at most
\* one HTTP request, in flight or settled, whatever its outcome; a call that
\* settled after a failure did so without a second request.
C11_AtMostOneRequest ==
    /\ \A c \in CallIds : Len(calls[c].requests) <= 1
    /\ \A c \in FetchIds : Len(fcalls[c].requests) <= 1

\* A data-fetching call has settled on its fallback after a transport failure,
\* with the one request it issued.
C11_Witness ==
    \E c \in FetchIds :
        /\ fcalls[c].fn \in FetchFns
        /\ fcalls[c].pc = "resolved"
        /\ fcalls[c].out = NetFail
        /\ Len(fcalls[c].requests) = 1

AuthenticatedPaths == {"/auth/logout", "/auth/me"}

\* No request of a login call or of a data-fetching call carries an
\* Authorization header, and every request to an authenticated endpoint does.
HeaderPlacement ==
    /\ \A c \in CallIds : \A i \in DOMAIN calls[c].requests :
          LET req == calls[c].requests[i]
          IN  /\ calls[c].fn = "login" => req.authorization = <<>>
              /\ req.path \in AuthenticatedPaths <=> calls[c].fn \in {"logout", "getCurrentUser"}
              /\ req.path \in AuthenticatedPaths => req.authorization # <<>>
    /\ \A c \in FetchIds : \A i \in DOMAIN fcalls[c].requests :
          /\ fcalls[c].requests[i].authorization = <<>>
          /\ fcalls[c].requests[i].path \notin AuthenticatedPaths

\* The step that starts call c, a logout or a getCurrentUser: with an empty
\* store it sends nothing and settles at once, otherwise it sends one request
\* whose header is made of the token the store holds at that moment.
StartsWithStoreToken(c) ==
    (/\ calls[c].pc = "idle"
     /\ calls'[c].fn \in {"logout", "getCurrentUser"})
    => IF store = <<>>
         THEN /\ calls'[c].requests = <<>>
              /\ calls'[c].fn = "logout" =>
                    calls'[c].pc = "resolved"
              /\ calls'[c].fn = "getCurrentUser" =>
                    /\ calls'[c].pc = "rejected"
                    /\ calls'[c].result = Error("Not authenticated")
         ELSE /\ Len(calls'[c].requests) = 1
              /\ calls'[c].requests[1].path =
                    (IF calls'[c].fn = "logout" THEN "/auth/logout" ELSE "/auth/me")
              /\ calls'[c].requests[1].authorization = <<"Bearer " \o store[1]>>

\* C16: every request to /auth/logout and to /auth/me carries the header
\* Authorization: 'Bearer ' followed by the token the store held when the call
\* started; with an empty store at call start no request is sent (logout
\* resolves, getCurrentUser rejects with "Not authenticated"); login and the
\* data-fetching functions never attach an Authorization header.
C16_BearerFromStore ==
    /\ []HeaderPlacement
    /\ [][\A c \in CallIds : StartsWithStoreToken(c)]_vars

\* A logout is in flight with the token the store held at its start.
C16_Witness ==
    \E c \in CallIds :
        /\ calls[c].fn = "logout"
        /\ calls[c].pc = "fetch"
        /\ calls[c].requests = <<Request("POST", "/auth/logout", <<"Bearer t0">>)>>

(***************************************************************************)
(* Progress of the data-fetching calls (checked under FetchLiveSpec).      *)
(***************************************************************************)
InFlight(call) == call.pc \in {"fetch", "json", "health"}

\* C12: given that every issued request eventually responds or fails, every
\* started data-fetching call eventually resolves with a value, for any number
\* of calls in flight and any order of the responses; and a call in flight can
\* always take its next step, whatever the state of the other calls.
C12_EveryFetchResolves ==
    /\ [](\A c \in FetchIds : InFlight(fcalls[c]) => ENABLED Settle(c))
    /\ \A c \in FetchIds :
          (fcalls[c].pc # "idle") ~> (fcalls[c].pc = "resolved" /\ fcalls[c].result # Pending)

\* Two calls were in flight together and the one started later has resolved on
\* its response while the earlier one is still waiting for its own.
C12_Witness ==
    /\ fcalls[1].pc = "fetch"
    /\ fcalls[2].pc = "resolved"
    /\ fcalls[2].out # NoOutcome

(***************************************************************************)
(* The session store called directly (checked under StoreSpec).            *)
(***************************************************************************)
\* What the store holds after the calls made so far: the argument of the last
\* call if it is a setAuthToken, nothing if it is a removeAuthToken.
AfterLastOp == IF ops[Len(ops)].op = "setAuthToken" THEN <<ops[Len(ops)].arg>> ELSE <<>>

\* Logged in, as logout and getCurrentUser test it: `if (!token)` is not taken.
LoggedIn == ~Falsy(getAuthToken)

StoreLaws ==
    /\ Len(store) <= 1
    /\ ops # <<>> => getAuthToken = AfterLastOp
    /\ (Len(ops) >= 2 /\ ops[Len(ops)] = RemoveOp /\ ops[Len(ops) - 1] = RemoveOp)
          => getAuthToken = <<>>

\* C13: after any sequence of setAuthToken and removeAuthToken calls,
\* getAuthToken returns the argument of the most recent setAuthToken if no
\* removeAuthToken followed it and null otherwise; the store holds at most one
\* token; a second removeAuthToken changes nothing; and 'logged in' is exactly
\* 'getAuthToken returns non-null'.
C13_LoggedInIffNonNull ==
    /\ StoreLaws
    /\ LoggedIn <=> getAuthToken # <<>>

(***************************************************************************)
(* The login form (checked under FormSpec).                                *)
(***************************************************************************)
LastSubmit == submits[Len(submits)]
InFlightSubmits == {i \in DOMAIN submits : submits[i] = Awaited}

\* C15: after a submit whose login call rejected with an Error the form's error
\* state is that error's message and no navigation to /dashboard has occurred;
\* after a submit whose login call resolved the route is /dashboard and the
\* error state is empty; and from the start of a new submit the error of the
\* previous attempt is cleared.
C15_FormFeedback ==
    submits # <<>> =>
        /\ LastSubmit = Awaited => form.error = ""
        /\ (LastSubmit.settled = "rejected" /\ LastSubmit.value.t = "error") =>
              /\ form.error = LastSubmit.value.message
              /\ location # "/dashboard"
        /\ LastSubmit.settled = "resolved" =>
              /\ location = "/dashboard"
              /\ form.error = ""

\* A submit failed with the backend's message and the next submit, now waiting
\* for its login call, has cleared it.
C15_Witness ==
    /\ submits = <<Rejected(Error("Incorrect username or password")), Awaited>>
    /\ form.error = ""

\* C20: isLoading is true exactly while a submit's login call has not settled,
\* so it is false again after every submit whatever the outcome; while it is
\* true the inputs and the submit button are disabled: the form can be neither
\* edited nor submitted, and at most one login call issued by the form is in
\* flight.
C20_LoadingFlag ==
    /\ form.isLoading <=> InFlightSubmits # {}
    /\ Cardinality(InFlightSubmits) <= 1
    /\ form.isLoading =>
          /\ Disabled
          /\ ~ENABLED handleSubmitStart
          /\ ~ENABLED (\E v \in Usernames : setUsername(v))
          /\ ~ENABLED (\E v \in Passwords : setPassword(v))

\* A second submit is waiting for its login call after the first one failed
\* with a value that is not an Error.
C20_Witness ==
    /\ submits = <<Rejected(Str("timeout")), Awaited>>
    /\ form.isLoading
    /\ form.error = ""

(***************************************************************************)
(* The navigation bar (checked under NavSpec).                             *)
(***************************************************************************)
\* The step settles a logout promise awaited by handleLogout as resolved.
LogoutResolves ==
    \E i \in DOMAIN logouts :
        /\ logouts[i].promise = Awaited
        /\ logouts'[i].promise.settled = "resolved"

\* C21: in both copies of Navigation a click on Logout has navigated to /login
\* only if its logout promise has resolved, and has not if the promise rejected
\* or is still pending; every change of route to /login is either that
\* navigation, in the step in which the promise resolves, or the Admin Login
\* link; and a menu that is rendered shows the Logout button and the Dashboard
\* link exactly when isAuthenticated is true, and the Admin Login link exactly
\* when it is false.
C21_LogoutThenNavigate ==
    /\ [](\A i \in DOMAIN logouts :
            logouts[i].navigated <=> logouts[i].promise.settled = "resolved")
    /\ [](\A menu \in {"desktop", "mobile"} :
            (menu = "desktop" \/ nav.mobileMenuOpen) =>
                /\ "Logout" \in Rendered(menu) <=> nav.isAuthenticated
                /\ "Dashboard" \in Rendered(menu) <=> nav.isAuthenticated
                /\ "Admin Login" \in Rendered(menu) <=> ~nav.isAuthenticated)
    /\ [][(location' = "/login" /\ location # "/login")
            => (LogoutResolves \/ ~nav.isAuthenticated)]_vars

\* In the second copy a click on Logout has led to /login after its promise
\* resolved, and another click has not after its promise rejected.
C21_Witness ==
    /\ nav.copy = "part_001"
    /\ Len(logouts) = 2
    /\ logouts[1] = [promise |-> Rejected(Error("Logout failed")), navigated |-> FALSE]
    /\ logouts[2] = [promise |-> Resolved(Undef), navigated |-> TRUE]
    /\ location = "/login"

====
